---- MODULE Spec2Model ----
(***************************************************************************)
(* Model of librustc_trans/debuginfo/create_scope_map.rs.                  *)
(*                                                                         *)
(* Two drivers share the backend primitive that creates a lexical block:   *)
(*   - create_mir_scopes / make_mir_scope, the memoised resolver of the    *)
(*     MIR scope tree (specifications SpecMir and SpecMirTwice);           *)
(*   - create_scope_map and its walk_* helpers, the AST walker with its    *)
(*     scope stack (specification Spec).                                   *)
(* Recursion is modelled with an explicit call stack, one action per       *)
(* branch of the code.                                                     *)
(***************************************************************************)
EXTENDS Integers, Sequences, FiniteSets, TLC

VARIABLES
    fn,             \* create_scope_map's arguments: [args, fn_entry_block, fn_ast_id]
    scope_stack,    \* create_scope_map: let mut scope_stack
    scope_map,      \* create_scope_map: let mut scope_map
    inserts,        \* every scope_map.insert call so far, in order
    todo,           \* the rest of the walk (the pending calls, next first)
    pc,             \* create_scope_map: "start", "walking", "returned"; "idle"
    blocks,         \* every LLVMDIBuilderCreateLexicalBlock call so far, in order
    fcx_mir,        \* fcx.mir: None or Some([scopes, var_decls])
    debug_context,  \* fcx.debug_context
    scopes,         \* create_mir_scopes: let mut scopes
    has_variables,  \* create_mir_scopes: let mut has_variables
    next_idx,       \* create_mir_scopes: state of the iterator 0..mir.scopes.len()
    callstack,      \* the active make_mir_scope calls, innermost last
    mpc,            \* create_mir_scopes: "start", "loop", "returned"; "panic"; "idle"
    returned,       \* the vector create_mir_scopes returned
    prior           \* results of an earlier call on the same inputs (SpecMirTwice)

mirVars == <<fcx_mir, debug_context, scopes, has_variables, next_idx, callstack,
             mpc, returned, prior>>

astVars == <<fn, scope_stack, scope_map, inserts, todo, pc>>

vars == <<blocks, astVars, mirVars>>

----------------------------------------------------------------------------
(* Handles.  A DIScope is a raw pointer; only null-ness and identity matter. *)

\* ptr::null_mut()
Null == 0

\* data.fn_metadata, the DISubprogram made by the caller: some non-null pointer
FnMetadata == 1

\* Option<T>
None == <<>>
Some(x) == <<x>>

\* The handle the backend returned for the k-th lexical block it created.
BlockHandle(k) == FnMetadata + k

\* The backend creates a distinct node at every call: the new handle differs
\* from every handle that exists.  `by` names the calling function.
LLVMDIBuilderCreateLexicalBlock(log, parent_scope, span, by) ==
    Append(log, [parent |-> parent_scope, span |-> span, by |-> by])

\* The handle returned by the latest call recorded in log.
LastCreated(log) == BlockHandle(Len(log))

\* The call that created handle h (h is a block handle).
BlockOf(h) == blocks[h - FnMetadata]

IsBlock(h) == h - FnMetadata \in 1..Len(blocks)

\* Vec::last().unwrap() and the vector after Vec::pop()
Top(stack) == stack[Len(stack)]
Pop(stack) == SubSeq(stack, 1, Len(stack) - 1)

Range(seq) == { seq[i] : i \in DOMAIN seq }

RECURSIVE Flatten(_)
Flatten(seqs) == IF seqs = <<>> THEN <<>> ELSE Head(seqs) \o Flatten(Tail(seqs))

----------------------------------------------------------------------------
(* The HIR of one function, as create_scope_map reads it.                  *)
(*                                                                         *)
(* A node is a record with its kind and its fields; a node that has an     *)
(* ast::NodeId carries it as `id`.  An id is the node's path from the      *)
(* function, so the ids of a tree are pairwise distinct.  The span of a    *)
(* node is identified with its id.                                         *)

Span(node) == node.id

\* ast::Ident { name, ctxt }: unhygienize() keeps the name and drops the
\* syntax context.
Unhygienize(ident) == ident.name

Ident(n, c) == [name |-> n, ctxt |-> c]

ExprLit(p) == [kind |-> "ExprLit", id |-> p]
ExprPath(p) == [kind |-> "ExprPath", id |-> p]
ExprBreak(p) == [kind |-> "ExprBreak", id |-> p]
ExprAgain(p) == [kind |-> "ExprAgain", id |-> p]

\* ExprCast, ExprType, ExprAddrOf, ExprField, ExprTupField, ExprBox, ExprUnary
ExprSub(k, p, e) == [kind |-> k, id |-> p, sub_exp |-> e]

ExprRet(p, opt) == [kind |-> "ExprRet", id |-> p, exp_opt |-> opt]

\* ExprAssignOp, ExprIndex, ExprBinary, ExprAssign, ExprRepeat
ExprPair(k, p, l, r) == [kind |-> k, id |-> p, lhs |-> l, rhs |-> r]

\* ExprVec, ExprTup
ExprList(k, p, es) == [kind |-> k, id |-> p, init_expressions |-> es]

ExprIf(p, c, t, e) ==
    [kind |-> "ExprIf", id |-> p, cond_exp |-> c, then_block |-> t,
     opt_else_exp |-> e]

ExprWhile(p, c, b) ==
    [kind |-> "ExprWhile", id |-> p, cond_exp |-> c, loop_body |-> b]

\* ExprLoop, ExprBlock
ExprBlockLike(k, p, b) == [kind |-> k, id |-> p, block |-> b]

\* decl.inputs are hir::Arg { pat, .. }
ExprClosure(p, ins, b) ==
    [kind |-> "ExprClosure", id |-> p, inputs |-> ins, block |-> b]

ExprCall(p, f, as) == [kind |-> "ExprCall", id |-> p, fn_exp |-> f, args |-> as]

ExprMethodCall(p, as) == [kind |-> "ExprMethodCall", id |-> p, args |-> as]

ExprMatch(p, d, arms) ==
    [kind |-> "ExprMatch", id |-> p, discriminant_exp |-> d, arms |-> arms]

Arm(ps, g, b) == [kind |-> "Arm", pats |-> ps, guard |-> g, body |-> b]

ExprStruct(p, fs, base) ==
    [kind |-> "ExprStruct", id |-> p, fields |-> fs, base_exp |-> base]

ExprInlineAsm(p, outs, ins) ==
    [kind |-> "ExprInlineAsm", id |-> p, outputs |-> outs, inputs |-> ins]

\* PatKind::Ident(_, path1, sub_pat_opt); `binding` is what
\* pat_util::pat_is_binding answers for the pattern.
PatIdent(p, ident, isBinding, sub) ==
    [kind |-> "PatIdent", id |-> p, path1 |-> ident, binding |-> isBinding,
     sub_pat_opt |-> sub]

\* PatWild, PatPath, PatQPath
PatLeaf(k, p) == [kind |-> k, id |-> p]

PatTupleStruct(p, opt) == [kind |-> "PatTupleStruct", id |-> p, sub_pats_opt |-> opt]

\* PatStruct (its field patterns), PatTup
PatSeq(k, p, ps) == [kind |-> k, id |-> p, sub_pats |-> ps]

\* PatBox, PatRef
PatSub(k, p, sp) == [kind |-> k, id |-> p, sub_pat |-> sp]

PatLit(p, e) == [kind |-> "PatLit", id |-> p, exp |-> e]

PatRange(p, e1, e2) == [kind |-> "PatRange", id |-> p, exp1 |-> e1, exp2 |-> e2]

PatVec(p, f, m, b) ==
    [kind |-> "PatVec", id |-> p, front |-> f, middle |-> m, back |-> b]

Block(p, ss, e) == [kind |-> "Block", id |-> p, stmts |-> ss, expr |-> e]

Local(p, pt, init) == [kind |-> "Local", id |-> p, pat |-> pt, init |-> init]

\* hir::StmtDecl(decl, id) with decl.node = hir::DeclLocal(local)
StmtLocal(p, l) ==
    [kind |-> "StmtDecl", id |-> p, decl |-> [kind |-> "DeclLocal", local |-> l]]

\* hir::StmtDecl(decl, id) with decl.node = hir::DeclItem(..)
StmtItem(p) == [kind |-> "StmtDecl", id |-> p, decl |-> [kind |-> "DeclItem"]]

\* StmtExpr, StmtSemi
StmtOfExpr(k, p, e) == [kind |-> k, id |-> p, exp |-> e]

Arg(pt) == [kind |-> "Arg", pat |-> pt]

\* The arguments of create_scope_map.
Function(as, b) == [args |-> as, fn_entry_block |-> b, fn_ast_id |-> <<0>>]

LeafExprs == {"ExprLit", "ExprBreak", "ExprAgain", "ExprPath"}
SubExprs == {"ExprCast", "ExprType", "ExprAddrOf", "ExprField", "ExprTupField",
             "ExprBox", "ExprUnary"}
PairExprs == {"ExprAssignOp", "ExprIndex", "ExprBinary", "ExprAssign", "ExprRepeat"}
ListExprs == {"ExprVec", "ExprTup"}
BlockExprs == {"ExprLoop", "ExprBlock"}
LeafPats == {"PatWild", "PatPath", "PatQPath"}
SeqPats == {"PatStruct", "PatTup"}
SubPats == {"PatBox", "PatRef"}

\* An Option as the sequence of what it holds.
OptSeq(opt) == opt

\* The nodes directly below a node, in source order.
Kids(n) ==
    CASE n.kind \in LeafExprs -> <<>>
      [] n.kind \in SubExprs -> <<n.sub_exp>>
      [] n.kind = "ExprRet" -> OptSeq(n.exp_opt)
      [] n.kind \in PairExprs -> <<n.lhs, n.rhs>>
      [] n.kind \in ListExprs -> n.init_expressions
      [] n.kind = "ExprIf" -> <<n.cond_exp, n.then_block>> \o OptSeq(n.opt_else_exp)
      [] n.kind = "ExprWhile" -> <<n.cond_exp, n.loop_body>>
      [] n.kind \in BlockExprs -> <<n.block>>
      [] n.kind = "ExprClosure" -> n.inputs \o <<n.block>>
      [] n.kind = "ExprCall" -> <<n.fn_exp>> \o n.args
      [] n.kind = "ExprMethodCall" -> n.args
      [] n.kind = "ExprMatch" -> <<n.discriminant_exp>> \o n.arms
      [] n.kind = "Arm" -> n.pats \o OptSeq(n.guard) \o <<n.body>>
      [] n.kind = "ExprStruct" -> n.fields \o OptSeq(n.base_exp)
      [] n.kind = "ExprInlineAsm" -> n.outputs \o n.inputs
      [] n.kind = "PatIdent" -> OptSeq(n.sub_pat_opt)
      [] n.kind \in LeafPats -> <<>>
      [] n.kind = "PatTupleStruct" ->
            IF n.sub_pats_opt = None THEN <<>> ELSE n.sub_pats_opt[1]
      [] n.kind \in SeqPats -> n.sub_pats
      [] n.kind \in SubPats -> <<n.sub_pat>>
      [] n.kind = "PatLit" -> <<n.exp>>
      [] n.kind = "PatRange" -> <<n.exp1, n.exp2>>
      [] n.kind = "PatVec" -> n.front \o OptSeq(n.middle) \o n.back
      [] n.kind = "Block" -> n.stmts \o OptSeq(n.expr)
      [] n.kind = "StmtDecl" -> <<n.decl>>
      [] n.kind = "DeclLocal" -> <<n.local>>
      [] n.kind = "DeclItem" -> <<>>
      [] n.kind = "Local" -> <<n.pat>> \o OptSeq(n.init)
      [] n.kind \in {"StmtExpr", "StmtSemi"} -> <<n.exp>>
      [] n.kind = "Arg" -> <<n.pat>>

\* A node and every node below it.
RECURSIVE SubNodes(_)
SubNodes(n) == {n} \cup UNION { SubNodes(k) : k \in Range(Kids(n)) }

\* The nodes that carry an ast::NodeId.
HasId(n) == n.kind \notin {"Arm", "DeclLocal", "DeclItem", "Arg"}

\* pat_util::pat_bindings: the binding identifier patterns of a pattern, in
\* the order Pat::walk visits them (a node before the nodes below it).
PatKinds == {"PatIdent", "PatTupleStruct", "PatVec", "PatLit", "PatRange"}
            \cup LeafPats \cup SeqPats \cup SubPats

RECURSIVE PatBindings(_)
PatBindings(pat) ==
    (IF pat.kind = "PatIdent" /\ pat.binding THEN <<pat>> ELSE <<>>)
    \o Flatten([i \in DOMAIN Kids(pat) |->
                  IF Kids(pat)[i].kind \in PatKinds
                  THEN PatBindings(Kids(pat)[i]) ELSE <<>>])

----------------------------------------------------------------------------
(* The walk.  `todo` is the rest of the walk: the calls still to be made,  *)
(* the next one first.  A call of with_new_scope is replaced, when it is   *)
(* reached, by its inner walk followed by the rest of its own body.        *)

WalkBlock(b) == [op |-> "walk_block", node |-> b]
WalkStmt(s) == [op |-> "stmt", node |-> s]
WalkDecl(d) == [op |-> "walk_decl", node |-> d]
WalkPattern(p) == [op |-> "walk_pattern", node |-> p]
WalkExpr(e) == [op |-> "walk_expr", node |-> e]
WithNewScope(span, inner) == [op |-> "with_new_scope", scope_span |-> span, inner_walk |-> inner]

\* The part of with_new_scope after inner_walk returns.  It keeps the locals
\* scope_metadata and scope_span; at_call remembers the stack the call found.
CloseScope(h, span, stack) ==
    [op |-> "close_scope", scope_metadata |-> h, scope_span |-> span, at_call |-> stack]

WalkStmts(seq) == [i \in DOMAIN seq |-> WalkStmt(seq[i])]
WalkPatterns(seq) == [i \in DOMAIN seq |-> WalkPattern(seq[i])]
WalkExprs(seq) == [i \in DOMAIN seq |-> WalkExpr(seq[i])]

UnnamedEntry(h, nm) == [scope_metadata |-> h, name |-> None]

\* ScopeStackEntry { scope_metadata, name }
ScopeStackEntry(h, nm) == [scope_metadata |-> h, name |-> nm]

\* NodeMap::insert: a later insert under the same key replaces the entry.
MapInsert(map, id, h) == (id :> h) @@ map

\* scope_map.insert(id, scope_stack.last().unwrap().scope_metadata), and the
\* record of the call.
InsertUnder(stack, id) ==
    /\ scope_map' = MapInsert(scope_map, id, Top(stack).scope_metadata)
    /\ inserts' = Append(inserts, [id |-> id, scope |-> Top(stack).scope_metadata])

\* Entries for the argument bindings that carry no name.
ArgsUnnamed(bindings) ==
    [i \in DOMAIN bindings |-> ScopeStackEntry(FnMetadata, None)]

\* scope_stack.push(ScopeStackEntry { scope_metadata: fn_metadata,
\*                                    name: Some(path1.node.unhygienize()) })
ArgEntries(bindings) ==
    [i \in DOMAIN bindings |->
        ScopeStackEntry(FnMetadata, Some(Unhygienize(bindings[i].path1)))]

RECURSIVE InsertAll(_, _)
InsertAll(map, calls) ==
    IF calls = <<>> THEN map
    ELSE InsertAll(MapInsert(map, Head(calls).id, Head(calls).scope), Tail(calls))

\* create_scope_map up to the call of with_new_scope for the body.
CreateScopeMap ==
    /\ pc = "start"
    /\ \E per_arg \in {[i \in DOMAIN fn.args |-> PatBindings(fn.args[i].pat)]} :
       \E bindings \in {Flatten(per_arg)} :
       \E calls \in {<<[id |-> fn.fn_ast_id, scope |-> FnMetadata]>>
                      \o [i \in DOMAIN bindings |->
                            [id |-> bindings[i].id, scope |-> FnMetadata]]} :
          /\ scope_stack' = <<ScopeStackEntry(FnMetadata, None)>> \o ArgEntries(bindings)
          /\ inserts' = calls
          /\ scope_map' = InsertAll(<<>>, calls)
    /\ todo' = <<WithNewScope(Span(fn.fn_entry_block), <<WalkBlock(fn.fn_entry_block)>>)>>
    /\ pc' = "walking"
    /\ UNCHANGED <<blocks, fn, mirVars>>

\* return scope_map;
CreateScopeMapReturn ==
    /\ pc = "walking"
    /\ todo = <<>>
    /\ pc' = "returned"
    /\ UNCHANGED <<blocks, fn, scope_stack, scope_map, inserts, todo, mirVars>>

Next1(op) ==
    /\ pc = "walking"
    /\ todo # <<>>
    /\ Head(todo).op = op

\* with_new_scope up to the call of inner_walk.
WithNewScopeOpen ==
    /\ Next1("with_new_scope")
    /\ LET call == Head(todo)
           parent_scope == Top(scope_stack).scope_metadata
       IN /\ blocks' = LLVMDIBuilderCreateLexicalBlock(blocks, parent_scope,
                           call.scope_span, "with_new_scope")
          /\ scope_stack' = Append(scope_stack,
                                   ScopeStackEntry(LastCreated(blocks'), None))
          /\ todo' = call.inner_walk
                     \o <<CloseScope(LastCreated(blocks'), call.scope_span, scope_stack)>>
                     \o Tail(todo)
    /\ UNCHANGED <<fn, scope_map, inserts, pc, mirVars>>

KeepArtificial(stack) == stack

PopEveryEntry(stack) == <<>>

PopArtificialOnce(stack) ==
    IF stack # <<>> /\ Top(stack).name # None THEN Pop(stack) ELSE stack

\* while scope_stack.last().unwrap().name.is_some() { scope_stack.pop(); }
\* (on an empty stack unwrap() panics: the empty stack is returned as it is)
RECURSIVE PopArtificial(_)
PopArtificial(stack) ==
    IF stack = <<>> THEN stack
    ELSE IF Top(stack).name # None THEN PopArtificial(Pop(stack))
    ELSE stack

\* with_new_scope after inner_walk: pop the artificial scopes, check the top
\* of the stack against scope_metadata (span_bug! when it differs), pop it.
WithNewScopeClose ==
    /\ Next1("close_scope")
    /\ LET call == Head(todo)
           popped == PopArtificial(scope_stack)
       IN IF popped = <<>>
          THEN /\ pc' = "panic"
               /\ scope_stack' = popped
               /\ todo' = <<>>
          ELSE IF Top(popped).scope_metadata # call.scope_metadata
          THEN /\ pc' = "span_bug"
               /\ scope_stack' = popped
               /\ todo' = <<>>
          ELSE /\ pc' = pc
               /\ scope_stack' = Pop(popped)
               /\ todo' = Tail(todo)
    /\ UNCHANGED <<blocks, fn, scope_map, inserts, mirVars>>

\* walk_block
WalkBlockStep ==
    /\ Next1("walk_block")
    /\ LET block == Head(todo).node
       IN /\ InsertUnder(scope_stack, block.id)
          /\ todo' = WalkStmts(block.stmts)
                     \o WalkExprs(OptSeq(block.expr))
                     \o Tail(todo)
    /\ UNCHANGED <<blocks, fn, scope_stack, pc, mirVars>>

\* walk_block: one iteration of `for statement in &block.stmts`
WalkStmtStep ==
    /\ Next1("stmt")
    /\ LET statement == Head(todo).node
       IN /\ InsertUnder(scope_stack, statement.id)
          /\ todo' = <<(IF statement.kind = "StmtDecl"
                        THEN WalkDecl(statement.decl)
                        ELSE WalkExpr(statement.exp))>>
                     \o Tail(todo)
    /\ UNCHANGED <<blocks, fn, scope_stack, pc, mirVars>>

\* walk_decl: hir::DeclLocal(local)
LocalCallsInitFirst(local) ==
    WalkExprs(OptSeq(local.init)) \o <<WalkPattern(local.pat)>>

\* walk_pattern(&local.pat); if let Some(ref exp) = local.init { walk_expr(&exp) }
LocalCalls(local) ==
    <<WalkPattern(local.pat)>> \o WalkExprs(OptSeq(local.init))

WalkDeclLocal ==
    /\ Next1("walk_decl")
    /\ Head(todo).node.kind = "DeclLocal"
    /\ LET local == Head(todo).node.local
       IN /\ InsertUnder(scope_stack, local.id)
          /\ todo' = LocalCalls(local) \o Tail(todo)
    /\ UNCHANGED <<blocks, fn, scope_stack, pc, mirVars>>

\* walk_decl: _ => ()
WalkDeclOther ==
    /\ Next1("walk_decl")
    /\ Head(todo).node.kind # "DeclLocal"
    /\ todo' = Tail(todo)
    /\ UNCHANGED <<blocks, fn, scope_stack, scope_map, inserts, pc, mirVars>>

\* The recursive calls of walk_pattern, after the insert, in order.
PatternCalls(pat) ==
    CASE pat.kind = "PatIdent" -> WalkPatterns(OptSeq(pat.sub_pat_opt))
      [] pat.kind = "PatWild" -> <<>>
      [] pat.kind = "PatTupleStruct" ->
            IF pat.sub_pats_opt = None THEN <<>>
            ELSE WalkPatterns(pat.sub_pats_opt[1])
      [] pat.kind \in {"PatPath", "PatQPath"} -> <<>>
      [] pat.kind = "PatStruct" -> WalkPatterns(pat.sub_pats)
      [] pat.kind = "PatTup" -> WalkPatterns(pat.sub_pats)
      [] pat.kind \in {"PatBox", "PatRef"} -> <<WalkPattern(pat.sub_pat)>>
      [] pat.kind = "PatLit" -> <<WalkExpr(pat.exp)>>
      [] pat.kind = "PatRange" -> <<WalkExpr(pat.exp1), WalkExpr(pat.exp2)>>
      [] pat.kind = "PatVec" ->
            WalkPatterns(pat.front)
            \o WalkPatterns(OptSeq(pat.middle))
            \o WalkPatterns(pat.back)

\* PatKind::Ident for which pat_util::pat_is_binding holds
IsBindingPat(pat) == pat.kind = "PatIdent" /\ pat.binding

NeedNewScopeTopOnly(stack, name) == Top(stack).name = Some(name)

NeedNewScopeAlways(stack, name) == TRUE

NeedNewScopeOuterOnly(stack, name) ==
    \E i \in DOMAIN stack :
        /\ stack[i].name = Some(name)
        /\ \E j \in (i + 1)..Len(stack) : stack[j].name = None

\* scope_stack.iter().any(|entry| entry.name == Some(name))
NeedNewScope(stack, name) ==
    \E i \in DOMAIN stack : stack[i].name = Some(name)

\* walk_pattern, a binding whose name is on the stack: a new lexical block
\* under the current one, pushed with the name.
WalkPatternShadow ==
    /\ Next1("walk_pattern")
    /\ LET pat == Head(todo).node
       IN /\ IsBindingPat(pat)
          /\ NeedNewScope(scope_stack, Unhygienize(pat.path1))
          /\ blocks' = LLVMDIBuilderCreateLexicalBlock(blocks,
                           Top(scope_stack).scope_metadata, Span(pat), "walk_pattern")
          /\ scope_stack' = Append(scope_stack,
                 ScopeStackEntry(LastCreated(blocks'), Some(Unhygienize(pat.path1))))
          /\ InsertUnder(scope_stack', pat.id)
          /\ todo' = PatternCalls(pat) \o Tail(todo)
    /\ UNCHANGED <<fn, pc, mirVars>>

\* walk_pattern, a binding whose name is not on the stack: the current
\* handle is pushed again, with the name.
WalkPatternBinding ==
    /\ Next1("walk_pattern")
    /\ LET pat == Head(todo).node
       IN /\ IsBindingPat(pat)
          /\ ~NeedNewScope(scope_stack, Unhygienize(pat.path1))
          /\ scope_stack' = Append(scope_stack,
                 ScopeStackEntry(Top(scope_stack).scope_metadata,
                                 Some(Unhygienize(pat.path1))))
          /\ InsertUnder(scope_stack', pat.id)
          /\ todo' = PatternCalls(pat) \o Tail(todo)
    /\ UNCHANGED <<blocks, fn, pc, mirVars>>

\* walk_pattern, every other pattern
WalkPatternOther ==
    /\ Next1("walk_pattern")
    /\ LET pat == Head(todo).node
       IN /\ ~IsBindingPat(pat)
          /\ InsertUnder(scope_stack, pat.id)
          /\ todo' = PatternCalls(pat) \o Tail(todo)
    /\ UNCHANGED <<blocks, fn, scope_stack, pc, mirVars>>

BlockScope(block) == WithNewScope(Span(block), <<WalkBlock(block)>>)

ArmScopeFirstPat(arm_ref) ==
    WithNewScope(Span(arm_ref.pats[1]),
                 <<WalkPattern(arm_ref.pats[1])>>
                 \o WalkExprs(OptSeq(arm_ref.guard))
                 \o <<WalkExpr(arm_ref.body)>>)

\* with_new_scope(cx, arm_ref.pats[0].span, .., ..) for one arm
ArmScope(arm_ref) ==
    WithNewScope(Span(arm_ref.pats[1]),
                 WalkPatterns(arm_ref.pats)
                 \o WalkExprs(OptSeq(arm_ref.guard))
                 \o <<WalkExpr(arm_ref.body)>>)

ArmWalk(arm_ref) ==
    WalkPatterns(arm_ref.pats) \o WalkExprs(OptSeq(arm_ref.guard))
    \o <<WalkExpr(arm_ref.body)>>

OneScopeForArms(arms) ==
    <<WithNewScope(Span(arms[1].pats[1]),
                   Flatten([i \in DOMAIN arms |-> ArmWalk(arms[i])]))>>

\* for arm_ref in arms { .. }
ArmScopes(arms) == [i \in DOMAIN arms |-> ArmScope(arms[i])]

\* for &hir::Arg { pat: ref pattern, .. } in &decl.inputs { walk_pattern(..) }
ArgPats(inputs) == [i \in DOMAIN inputs |-> WalkPattern(inputs[i].pat)]

\* The calls walk_expr makes after the insert, in order.
ExprCalls(exp) ==
    CASE exp.kind \in {"ExprLit", "ExprBreak", "ExprAgain", "ExprPath"} -> <<>>
      [] exp.kind \in {"ExprCast", "ExprType", "ExprAddrOf", "ExprField",
                       "ExprTupField"} -> <<WalkExpr(exp.sub_exp)>>
      [] exp.kind = "ExprBox" -> <<WalkExpr(exp.sub_exp)>>
      [] exp.kind = "ExprRet" -> WalkExprs(OptSeq(exp.exp_opt))
      [] exp.kind = "ExprUnary" -> <<WalkExpr(exp.sub_exp)>>
      [] exp.kind \in {"ExprAssignOp", "ExprIndex", "ExprBinary"} ->
            <<WalkExpr(exp.lhs), WalkExpr(exp.rhs)>>
      [] exp.kind \in {"ExprVec", "ExprTup"} -> WalkExprs(exp.init_expressions)
      [] exp.kind \in {"ExprAssign", "ExprRepeat"} ->
            <<WalkExpr(exp.lhs), WalkExpr(exp.rhs)>>
      [] exp.kind = "ExprIf" ->
            <<WalkExpr(exp.cond_exp), BlockScope(exp.then_block)>>
            \o WalkExprs(OptSeq(exp.opt_else_exp))
      [] exp.kind = "ExprWhile" ->
            <<WalkExpr(exp.cond_exp), BlockScope(exp.loop_body)>>
      [] exp.kind \in {"ExprLoop", "ExprBlock"} -> <<BlockScope(exp.block)>>
      [] exp.kind = "ExprClosure" ->
            <<WithNewScope(Span(exp.block),
                           ArgPats(exp.inputs) \o <<WalkBlock(exp.block)>>)>>
      [] exp.kind = "ExprCall" ->
            <<WalkExpr(exp.fn_exp)>> \o WalkExprs(exp.args)
      [] exp.kind = "ExprMethodCall" -> WalkExprs(exp.args)
      [] exp.kind = "ExprMatch" ->
            <<WalkExpr(exp.discriminant_exp)>> \o ArmScopes(exp.arms)
      [] exp.kind = "ExprStruct" ->
            WalkExprs(exp.fields) \o WalkExprs(OptSeq(exp.base_exp))
      [] exp.kind = "ExprInlineAsm" ->
            WalkExprs(exp.outputs) \o WalkExprs(exp.inputs)

\* walk_expr
WalkExprStep ==
    /\ Next1("walk_expr")
    /\ LET exp == Head(todo).node
       IN /\ InsertUnder(scope_stack, exp.id)
          /\ todo' = ExprCalls(exp) \o Tail(todo)
    /\ UNCHANGED <<blocks, fn, scope_stack, pc, mirVars>>

----------------------------------------------------------------------------
(* Inputs of create_scope_map.                                             *)

\* how many distinct variable names the functions use
NumNames == 2

\* most statements (declarations and nested blocks together) in a body
MaxSize == 3

\* most arms of a match
MaxArms == 2

Names == 1..NumNames

\* let n = <literal>;
LetStmt(q, n) ==
    StmtLocal(q, Local(q \o <<1>>,
                       PatIdent(q \o <<1, 1>>, Ident(n, 0), TRUE, None),
                       Some(ExprLit(q \o <<1, 2>>))))

\* A block of the given statements that ends in a path expression.
UseBlock(p, ss) == Block(p, ss, Some(ExprPath(p \o <<0>>)))

\* { ss; use }  as a statement, or  |x| { ss; use };  whose parameter has the
\* first name in another syntax context.
NestStmt(k, q, ss) ==
    IF k = "ExprBlock"
    THEN StmtOfExpr("StmtExpr", q,
             ExprBlockLike("ExprBlock", q \o <<1>>, UseBlock(q \o <<1, 1>>, ss)))
    ELSE StmtOfExpr("StmtSemi", q,
             ExprClosure(q \o <<1>>,
                         <<Arg(PatIdent(q \o <<1, 2>>, Ident(1, 1), TRUE, None))>>,
                         UseBlock(q \o <<1, 1>>, ss)))

NestKinds == {"ExprBlock", "ExprClosure"}

\* StmtLists(p, k, w): the statement lists of block p from position k on that
\* hold w statements in all, nested ones included.  StmtsOf(q, c): the
\* statements with id q that hold c statements, themselves included.
RECURSIVE StmtLists(_, _, _), StmtsOf(_, _)
StmtLists(p, k, w) ==
    IF w = 0 THEN {<<>>}
    ELSE UNION { { <<s>> \o rest : s \in StmtsOf(p \o <<k>>, c),
                                   rest \in StmtLists(p, k + 1, w - c) } :
                 c \in 1..w }

StmtsOf(q, c) ==
    (IF c = 1 THEN { LetStmt(q, n) : n \in Names } ELSE {})
    \cup { NestStmt(k, q, ss) : k \in NestKinds, ss \in StmtLists(q \o <<1, 1>>, 1, c - 1) }

\* Bodies of declarations and nested blocks or closures.
NestedBodies ==
    UNION { { UseBlock(<<2>>, ss) : ss \in StmtLists(<<2>>, 1, w) } : w \in 0..MaxSize }

\* Arm k of the match with id q: `n => use`, or `n | n if use => use`.
ArmChoices(q, k) ==
    { Arm(<<PatIdent(q \o <<k, 1>>, Ident(n, 0), TRUE, None)>>, None,
          ExprPath(q \o <<k, 9>>)) : n \in Names }
    \cup
    { Arm(<<PatIdent(q \o <<k, 1>>, Ident(n, 0), TRUE, None),
            PatIdent(q \o <<k, 2>>, Ident(n, 0), TRUE, None)>>,
          Some(ExprPath(q \o <<k, 8>>)), ExprPath(q \o <<k, 9>>)) : n \in Names }

RECURSIVE ArmLists(_, _, _)
ArmLists(q, k, len) ==
    IF k > len THEN {<<>>}
    ELSE { <<a>> \o rest : a \in ArmChoices(q, k), rest \in ArmLists(q, k + 1, len) }

MatchStmt(q, arms) ==
    StmtOfExpr("StmtSemi", q, ExprMatch(q \o <<1>>, ExprPath(q \o <<1, 0>>), arms))

PreLets == {<<>>} \cup { <<LetStmt(<<2, 1>>, n)>> : n \in Names }

\* Bodies of an optional declaration and a match of one to MaxArms arms.
MatchBodies ==
    UNION { { Block(<<2>>, pre \o <<MatchStmt(<<2, Len(pre) + 1>>, arms)>>, None) :
                arms \in ArmLists(<<2, Len(pre) + 1, 1>>, 1, len) } :
            pre \in PreLets, len \in 1..MaxArms }

\* No parameter, or one parameter that binds a name.
ArgLists ==
    {<<>>} \cup { <<Arg(PatIdent(<<1, 1>>, Ident(n, 0), TRUE, None))>> : n \in Names }

\* A body with an expression of every kind walk_expr tells apart.
ExprZoo ==
    LET S(k, e) == StmtOfExpr("StmtSemi", <<2, k>>, e)
        E(k) == <<2, k, 1>>
        Empty(p) == Block(p, <<>>, None)
    IN Block(<<2>>,
         << S(1, ExprSub("ExprCast", E(1), ExprSub("ExprType", E(1) \o <<1>>,
                   ExprSub("ExprAddrOf", E(1) \o <<1, 1>>,
                       ExprSub("ExprField", E(1) \o <<1, 1, 1>>,
                           ExprSub("ExprTupField", E(1) \o <<1, 1, 1, 1>>,
                               ExprSub("ExprBox", E(1) \o <<1, 1, 1, 1, 1>>,
                                   ExprSub("ExprUnary", E(1) \o <<1, 1, 1, 1, 1, 1>>,
                                       ExprLit(E(1) \o <<1, 1, 1, 1, 1, 1, 1>>))))))))),
            S(2, ExprPair("ExprAssignOp", E(2),
                     ExprPair("ExprIndex", E(2) \o <<1>>,
                         ExprPath(E(2) \o <<1, 1>>), ExprLit(E(2) \o <<1, 2>>)),
                     ExprPair("ExprBinary", E(2) \o <<2>>,
                         ExprLit(E(2) \o <<2, 1>>), ExprLit(E(2) \o <<2, 2>>)))),
            S(3, ExprPair("ExprAssign", E(3), ExprPath(E(3) \o <<1>>),
                     ExprPair("ExprRepeat", E(3) \o <<2>>,
                         ExprLit(E(3) \o <<2, 1>>), ExprLit(E(3) \o <<2, 2>>)))),
            S(4, ExprList("ExprVec", E(4),
                     <<ExprList("ExprTup", E(4) \o <<1>>,
                           <<ExprLit(E(4) \o <<1, 1>>), ExprLit(E(4) \o <<1, 2>>)>>),
                       ExprList("ExprTup", E(4) \o <<2>>, <<>>)>>)),
            S(5, ExprCall(E(5), ExprPath(E(5) \o <<0>>),
                     <<ExprMethodCall(E(5) \o <<1>>,
                           <<ExprPath(E(5) \o <<1, 1>>), ExprLit(E(5) \o <<1, 2>>)>>),
                       ExprLit(E(5) \o <<2>>)>>)),
            S(6, ExprStruct(E(6),
                     <<ExprLit(E(6) \o <<1>>),
                       ExprStruct(E(6) \o <<2>>, <<>>, None)>>,
                     Some(ExprPath(E(6) \o <<0>>)))),
            S(7, ExprInlineAsm(E(7), <<ExprPath(E(7) \o <<1>>)>>,
                     <<ExprLit(E(7) \o <<2>>), ExprLit(E(7) \o <<3>>)>>)),
            S(8, ExprIf(E(8), ExprLit(E(8) \o <<1>>),
                     Block(E(8) \o <<2>>, <<LetStmt(E(8) \o <<2, 1>>, 1)>>, None),
                     Some(ExprIf(E(8) \o <<3>>, ExprLit(E(8) \o <<3, 1>>),
                              Empty(E(8) \o <<3, 2>>), None)))),
            S(9, ExprWhile(E(9), ExprLit(E(9) \o <<1>>),
                     Block(E(9) \o <<2>>,
                           <<StmtOfExpr("StmtSemi", E(9) \o <<2, 1>>,
                                        ExprBreak(E(9) \o <<2, 1, 1>>))>>, None))),
            S(10, ExprBlockLike("ExprLoop", E(10),
                     Block(E(10) \o <<1>>,
                           <<StmtOfExpr("StmtSemi", E(10) \o <<1, 1>>,
                                        ExprAgain(E(10) \o <<1, 1, 1>>)),
                             StmtOfExpr("StmtSemi", E(10) \o <<1, 2>>,
                                        ExprRet(E(10) \o <<1, 2, 1>>, None))>>, None))),
            StmtItem(<<2, 11>>),
            StmtLocal(<<2, 12>>,
                Local(<<2, 12, 1>>,
                      PatIdent(<<2, 12, 1, 1>>, Ident(1, 0), TRUE, None), None)),
            StmtLocal(<<2, 13>>,
                Local(<<2, 13, 1>>,
                      PatIdent(<<2, 13, 1, 1>>, Ident(1, 0), TRUE, None),
                      Some(ExprBlockLike("ExprBlock", <<2, 13, 1, 2>>,
                               Block(<<2, 13, 1, 2, 1>>, <<>>,
                                     Some(ExprLit(<<2, 13, 1, 2, 1, 0>>))))))) >>,
         Some(ExprRet(<<2, 0>>, Some(ExprLit(<<2, 0, 1>>)))))

\* A parameter and a body with a pattern of every kind walk_pattern tells
\* apart, and with a name bound under two syntax contexts.
PatZoo ==
    LET L(k, pat) == StmtLocal(<<2, k>>,
                         Local(<<2, k, 1>>, pat, Some(ExprPath(<<2, k, 1, 2>>))))
        P(k) == <<2, k, 1, 1>>
        B(p, n, c) == PatIdent(p, Ident(n, c), TRUE, None)
    IN Function(
         <<Arg(PatSeq("PatTup", <<1, 1>>,
                      <<B(<<1, 1, 1>>, 1, 0),
                        PatSub("PatRef", <<1, 1, 2>>,
                               PatIdent(<<1, 1, 2, 1>>, Ident(2, 0), TRUE,
                                        Some(PatLeaf("PatWild", <<1, 1, 2, 1, 1>>))))>>))>>,
         Block(<<2>>,
           << L(1, PatSeq("PatTup", P(1),
                     <<PatLeaf("PatWild", P(1) \o <<1>>),
                       PatIdent(P(1) \o <<2>>, Ident(1, 1), TRUE,
                                Some(PatLeaf("PatPath", P(1) \o <<2, 1>>)))>>)),
              L(2, PatSeq("PatStruct", P(2),
                     <<PatIdent(P(2) \o <<1>>, Ident(1, 0), FALSE, None),
                       PatSub("PatBox", P(2) \o <<2>>, B(P(2) \o <<2, 1>>, 2, 0)),
                       PatLeaf("PatQPath", P(2) \o <<3>>)>>)),
              L(3, PatTupleStruct(P(3),
                     Some(<<PatTupleStruct(P(3) \o <<1>>, None),
                            PatLit(P(3) \o <<2>>, ExprLit(P(3) \o <<2, 1>>)),
                            PatRange(P(3) \o <<3>>, ExprLit(P(3) \o <<3, 1>>),
                                     ExprLit(P(3) \o <<3, 2>>))>>))),
              L(4, PatVec(P(4), <<B(P(4) \o <<1>>, 2, 0)>>,
                          Some(PatLeaf("PatWild", P(4) \o <<2>>)),
                          <<B(P(4) \o <<3>>, 1, 0), PatLeaf("PatWild", P(4) \o <<4>>)>>)),
              L(5, PatVec(P(5), <<>>, None, <<>>)) >>,
           None))

Functions ==
    { Function(as, b) : as \in ArgLists, b \in NestedBodies \cup MatchBodies }
    \cup { Function(<<>>, ExprZoo), PatZoo }

----------------------------------------------------------------------------
(* Inputs of create_mir_scopes.                                            *)

\* most scopes in a MIR scope tree
NumScopes == 4

ScopeIds(n) == 0..(n - 1)

\* parent links that may loop
AnyLinks(par, i, fuel) == TRUE

RECURSIVE ReachesRoot(_, _, _)
ReachesRoot(par, i, fuel) ==
    IF par[i] = None THEN TRUE
    ELSE IF fuel = 0 THEN FALSE
    ELSE ReachesRoot(par, par[i][1], fuel - 1)

\* parent links of n scopes, acyclic, in any index order
ParentLinks(n) ==
    { par \in [ScopeIds(n) -> {None} \cup {Some(p) : p \in ScopeIds(n)}] :
        \A i \in ScopeIds(n) : ReachesRoot(par, i, n) }

\* mir.scopes[i] = ScopeData { span, parent_scope }; mir.var_decls holds the
\* scope of each declared variable.
MirOf(n, par, vs) ==
    [scopes |-> [i \in ScopeIds(n) |-> [span |-> i, parent_scope |-> par[i]]],
     var_decls |-> { [scope |-> s] : s \in vs }]

DebugContexts == {"RegularContext", "DebugInfoDisabled", "FunctionWithoutDebugInfo"}

ScopesLenLessOne(m) == Cardinality(DOMAIN m.scopes) - 1

\* mir.scopes.len()
ScopesLen(m) == Cardinality(DOMAIN m.scopes)

\* let mir = fcx.mir.clone().expect(..): the MIR the call works on, once the
\* expect has passed.
mir == fcx_mir[1]

ParentOf(i) == mir.scopes[i].parent_scope

RECURSIVE Ancestors(_)
Ancestors(i) ==
    IF ParentOf(i) = None THEN {}
    ELSE {ParentOf(i)[1]} \cup Ancestors(ParentOf(i)[1])

----------------------------------------------------------------------------
(* create_mir_scopes                                                       *)

StaleScopes(m) == IF scopes = <<>> THEN [i \in DOMAIN m.scopes |-> Null] ELSE scopes

\* vec![ptr::null_mut(); mir.scopes.len()]
NewScopes(m) == [i \in DOMAIN m.scopes |-> Null]

\* The arms of `match fcx.debug_context` that return early.
DebugInfoOff(ctx) == ctx \in {"DebugInfoDisabled", "FunctionWithoutDebugInfo"}

EarlyReturnEmpty(s) == <<>>

\* `return scopes;` in those arms
EarlyReturn(s) == s

\* for var in &mir.var_decls { has_variables.insert(var.scope.index()); }
HasVariables(m) == { var.scope : var \in m.var_decls }

\* fcx.mir.clone().expect("create_mir_scopes: missing MIR for fn") comes
\* first, in every debug context: without MIR the call panics, no table is
\* made and nothing is returned.
CreateMirScopesDisabled ==
    /\ mpc = "start"
    /\ DebugInfoOff(debug_context)
    /\ IF fcx_mir = None
       THEN /\ mpc' = "panic"
            /\ UNCHANGED <<scopes, returned>>
       ELSE /\ scopes' = NewScopes(mir)
            /\ returned' = EarlyReturn(scopes')
            /\ mpc' = "returned"
    /\ UNCHANGED <<astVars, blocks, fcx_mir, debug_context, has_variables, next_idx,
                   callstack, prior>>

CreateMirScopesEnabled ==
    /\ mpc = "start"
    /\ ~DebugInfoOff(debug_context)
    /\ IF fcx_mir = None
       THEN /\ mpc' = "panic"
            /\ UNCHANGED <<scopes, has_variables, next_idx>>
       ELSE /\ scopes' = NewScopes(mir)
            /\ has_variables' = HasVariables(mir)
            /\ next_idx' = 0
            /\ mpc' = "loop"
    /\ UNCHANGED <<astVars, blocks, fcx_mir, debug_context, callstack, returned, prior>>

\* One iteration of `for idx in 0..mir.scopes.len()`: the call of make_mir_scope.
CreateMirScopesLoop ==
    /\ mpc = "loop"
    /\ callstack = <<>>
    /\ next_idx < ScopesLen(mir)
    /\ callstack' = <<[scope |-> next_idx, pc |-> "entry"]>>
    /\ next_idx' = next_idx + 1
    /\ UNCHANGED <<astVars, blocks, fcx_mir, debug_context, scopes, has_variables, mpc,
                   returned, prior>>

CreateMirScopesReturn ==
    /\ mpc = "loop"
    /\ callstack = <<>>
    /\ next_idx = ScopesLen(mir)
    /\ returned' = scopes
    /\ mpc' = "returned"
    /\ UNCHANGED <<astVars, blocks, fcx_mir, debug_context, scopes, has_variables, next_idx,
                   callstack, prior>>

----------------------------------------------------------------------------
(* make_mir_scope: the innermost call is the last frame of callstack.      *)

Frame == callstack[Len(callstack)]

\* The recursion of make_mir_scope uses the machine stack: a chain of calls
\* longer than the stack holds aborts the process.  The limit is above the
\* depth any acyclic scope tree of the inputs needs.
StackLimit == NumScopes + 1

NeverResolved(idx) == FALSE

ResolvedIfFn(idx) == scopes[idx] = FnMetadata

\* !scopes[idx].is_null()
IsResolved(idx) == scopes[idx] # Null

\* if !scopes[idx].is_null() { return; }
MakeMirScopeResolved ==
    /\ callstack # <<>>
    /\ Frame.pc = "entry"
    /\ IsResolved(Frame.scope)
    /\ callstack' = Pop(callstack)
    /\ UNCHANGED <<astVars, blocks, fcx_mir, debug_context, scopes, has_variables, next_idx,
                   mpc, returned, prior>>

\* parent_scope is None: scopes[idx] = fn_metadata; return;
MakeMirScopeRoot ==
    /\ callstack # <<>>
    /\ Frame.pc = "entry"
    /\ ~IsResolved(Frame.scope)
    /\ ParentOf(Frame.scope) = None
    /\ scopes' = [scopes EXCEPT ![Frame.scope] = FnMetadata]
    /\ callstack' = Pop(callstack)
    /\ UNCHANGED <<astVars, blocks, fcx_mir, debug_context, has_variables, next_idx, mpc,
                   returned, prior>>

\* parent_scope is Some(parent): the recursive call make_mir_scope(.., parent, ..)
MakeMirScopeParent ==
    /\ callstack # <<>>
    /\ Frame.pc = "entry"
    /\ ~IsResolved(Frame.scope)
    /\ ParentOf(Frame.scope) # None
    /\ IF Len(callstack) >= StackLimit
       THEN /\ mpc' = "stack_overflow"
            /\ callstack' = <<>>
       ELSE /\ mpc' = mpc
            /\ callstack' = Append([callstack EXCEPT ![Len(callstack)].pc = "parent_done"],
                                   [scope |-> ParentOf(Frame.scope)[1], pc |-> "entry"])
    /\ UNCHANGED <<astVars, blocks, fcx_mir, debug_context, scopes, has_variables, next_idx,
                   returned, prior>>

SkipAnyEmpty(idx, parent_scope) == idx \notin has_variables

SkipNever(idx, parent_scope) == FALSE

SkipUnderFn(idx, parent_scope) ==
    /\ idx \notin has_variables
    /\ parent_scope = FnMetadata

\* if !has_variables.contains(idx) { if parent_scope != fn_metadata { .. return } }
SkipScope(idx, parent_scope) ==
    /\ idx \notin has_variables
    /\ parent_scope # FnMetadata

\* let parent_scope = scopes[parent.index()], read after the recursive call
ParentScope(idx) == scopes[ParentOf(idx)[1]]

\* scopes[idx] = parent_scope; return;
MakeMirScopeElide ==
    /\ callstack # <<>>
    /\ Frame.pc = "parent_done"
    /\ SkipScope(Frame.scope, ParentScope(Frame.scope))
    /\ scopes' = [scopes EXCEPT ![Frame.scope] = ParentScope(Frame.scope)]
    /\ callstack' = Pop(callstack)
    /\ UNCHANGED <<astVars, blocks, fcx_mir, debug_context, has_variables, next_idx, mpc,
                   returned, prior>>

\* scopes[idx] = LLVMDIBuilderCreateLexicalBlock(DIB, parent_scope, file, line, col)
MakeMirScopeCreate ==
    /\ callstack # <<>>
    /\ Frame.pc = "parent_done"
    /\ ~SkipScope(Frame.scope, ParentScope(Frame.scope))
    /\ blocks' = LLVMDIBuilderCreateLexicalBlock(blocks, ParentScope(Frame.scope),
                     mir.scopes[Frame.scope].span, "make_mir_scope")
    /\ scopes' = [scopes EXCEPT ![Frame.scope] = LastCreated(blocks')]
    /\ callstack' = Pop(callstack)
    /\ UNCHANGED <<astVars, fcx_mir, debug_context, has_variables, next_idx, mpc, returned,
                   prior>>

----------------------------------------------------------------------------
(* A second call of create_mir_scopes on the same FunctionContext.         *)

\* The locals of the earlier call are dead; the prologue of the new call
\* overwrites them.  Only the backend keeps what it created.
CreateMirScopesAgain ==
    /\ mpc = "returned"
    /\ prior = <<>>
    /\ prior' = <<[table |-> returned, calls |-> Len(blocks)]>>
    /\ mpc' = "start"
    /\ returned' = <<>>
    /\ UNCHANGED <<astVars, blocks, fcx_mir, debug_context, scopes, has_variables, next_idx,
                   callstack>>

----------------------------------------------------------------------------

\* create_mir_scopes is not running.
MirIdle ==
    /\ fcx_mir = None
    /\ debug_context = "DebugInfoDisabled"
    /\ scopes = <<>>
    /\ has_variables = {}
    /\ next_idx = 0
    /\ callstack = <<>>
    /\ mpc = "idle"
    /\ returned = <<>>
    /\ prior = <<>>

\* create_scope_map is not running.
AstIdle ==
    /\ fn = Function(<<>>, Block(<<2>>, <<>>, None))
    /\ scope_stack = <<>>
    /\ scope_map = <<>>
    /\ inserts = <<>>
    /\ todo = <<>>
    /\ pc = "idle"

Init ==
    /\ blocks = <<>>
    /\ fn \in Functions
    /\ scope_stack = <<>>
    /\ scope_map = <<>>
    /\ inserts = <<>>
    /\ todo = <<>>
    /\ pc = "start"
    /\ MirIdle

Next ==
    \/ CreateScopeMap
    \/ CreateScopeMapReturn
    \/ WithNewScopeOpen
    \/ WithNewScopeClose
    \/ WalkBlockStep
    \/ WalkStmtStep
    \/ WalkDeclLocal
    \/ WalkDeclOther
    \/ WalkPatternShadow
    \/ WalkPatternBinding
    \/ WalkPatternOther
    \/ WalkExprStep

Spec == Init /\ [][Next]_vars

MirInit ==
    /\ blocks = <<>>
    /\ AstIdle
    /\ \/ fcx_mir = None
       \/ \E n \in 1..NumScopes :
             \E par \in ParentLinks(n), vs \in SUBSET ScopeIds(n) :
                 fcx_mir = Some(MirOf(n, par, vs))
    /\ debug_context \in DebugContexts
    /\ scopes = <<>>
    /\ has_variables = {}
    /\ next_idx = 0
    /\ callstack = <<>>
    /\ mpc = "start"
    /\ returned = <<>>
    /\ prior = <<>>

MirNext ==
    \/ CreateMirScopesDisabled
    \/ CreateMirScopesEnabled
    \/ CreateMirScopesLoop
    \/ CreateMirScopesReturn
    \/ MakeMirScopeResolved
    \/ MakeMirScopeRoot
    \/ MakeMirScopeParent
    \/ MakeMirScopeElide
    \/ MakeMirScopeCreate

SpecMir == MirInit /\ [][MirNext]_vars

MirTwiceNext == MirNext \/ CreateMirScopesAgain

SpecMirTwice == MirInit /\ [][MirTwiceNext]_vars

\* Either procedure, called once and run to its end: the program is
\* sequential, so a step that can be taken is taken.
TermInit == Init \/ MirInit

TermNext == Next \/ MirNext

SpecTerm == TermInit /\ [][TermNext]_vars /\ WF_vars(TermNext)

----------------------------------------------------------------------------
(* Properties of create_scope_map                                          *)

\* The nodes of the function body, and those with an id.
BodyNodes == SubNodes(fn.fn_entry_block)

\* The nodes create_scope_map is to record: the function, the bindings of
\* the parameters, and every node of the body that has an id.
ExpectedIds ==
    {fn.fn_ast_id}
    \cup { n.id : n \in { m \in UNION { SubNodes(fn.args[i]) : i \in DOMAIN fn.args } :
                            IsBindingPat(m) } }
    \cup { n.id : n \in { m \in BodyNodes : HasId(m) } }

\* C1: every node the walker visits is inserted exactly once: no id is
\* inserted twice, the map holds for each inserted id the handle it was
\* inserted with, only nodes of the function are inserted, and at the return
\* the map's keys are exactly the function id, the parameter bindings and the
\* nodes of the body.
C1_EachNodeOnce ==
    /\ \A i, j \in DOMAIN inserts : i # j => inserts[i].id # inserts[j].id
    /\ \A i \in DOMAIN inserts :
          /\ inserts[i].id \in DOMAIN scope_map
          /\ scope_map[inserts[i].id] = inserts[i].scope
    /\ Cardinality(DOMAIN scope_map) = Len(inserts)
    /\ pc = "returned" => DOMAIN scope_map = ExpectedIds

C1_Witness ==
    /\ pc = "returned"
    /\ fn.args # <<>>
    /\ Len(inserts) >= 12
    /\ \E k \in DOMAIN blocks : blocks[k].by = "walk_pattern"
    /\ \E n \in BodyNodes : n.kind = "ExprMatch" /\ Len(n.arms[1].pats) = 2

\* A statement `let n = ..;` whose pattern is the binding n alone.
IsLet(s) ==
    /\ s.kind = "StmtDecl"
    /\ s.decl.kind = "DeclLocal"
    /\ IsBindingPat(s.decl.local.pat)

LetPat(s) == s.decl.local.pat

NameOf(pat) == Unhygienize(pat.path1)

\* A statement that is a bare block `{ .. }`.
IsBlockStmt(s) ==
    /\ s.kind \in {"StmtExpr", "StmtSemi"}
    /\ s.exp.kind = "ExprBlock"

\* Handle h is a block that walk_pattern created for the binding pat.
IsShadowScopeOf(h, pat) ==
    /\ IsBlock(h)
    /\ BlockOf(h).by = "walk_pattern"
    /\ BlockOf(h).span = Span(pat)

\* No backend call was made by walk_pattern for pat.
NoShadowScopeFor(pat) ==
    \A k \in DOMAIN blocks :
        ~(blocks[k].by = "walk_pattern" /\ blocks[k].span = Span(pat))

\* The nodes with an id in and below the statements of block b from
\* position k on and its closing expression.
NodesFrom(b, k) ==
    { n \in UNION ({ SubNodes(b.stmts[i]) : i \in k..Len(b.stmts) }
                   \cup { SubNodes(e) : e \in Range(OptSeq(b.expr)) }) : HasId(n) }

\* The places of the shape { let n = ..; { let n = ..; USE } }: an outer
\* declaration of n, a later bare block of the same block that starts with a
\* declaration of n.
ShadowShapes ==
    { <<LetPat(t[1].stmts[t[2]]), t[1].stmts[t[3]].exp.block>> :
        t \in { u \in UNION { {b} \X (DOMAIN b.stmts) \X (DOMAIN b.stmts) :
                              b \in { m \in BodyNodes : m.kind = "Block" } } :
                  /\ u[2] < u[3]
                  /\ IsLet(u[1].stmts[u[2]])
                  /\ IsBlockStmt(u[1].stmts[u[3]])
                  /\ u[1].stmts[u[3]].exp.block.stmts # <<>>
                  /\ IsLet(u[1].stmts[u[3]].exp.block.stmts[1])
                  /\ NameOf(LetPat(u[1].stmts[u[3]].exp.block.stmts[1]))
                       = NameOf(LetPat(u[1].stmts[u[2]])) } }

\* C2: shadowing.  In { let x = 1; { let x = 2; USE } } the inner binding is
\* recorded under a block that walk_pattern created for it as a child of the
\* inner block's handle; the inner declaration itself is still recorded under
\* the inner block's handle; and every node after the inner declaration is
\* recorded under a handle that differs from the outer binding's and from the
\* inner block's.
C2_Shadowing ==
    pc = "returned" =>
        \A shape \in ShadowShapes :
            LET outer == shape[1]
                inner_block == shape[2]
                inner == LetPat(inner_block.stmts[1])
            IN /\ IsShadowScopeOf(scope_map[inner.id], inner)
               /\ BlockOf(scope_map[inner.id]).parent = scope_map[inner_block.id]
               /\ scope_map[inner_block.stmts[1].id] = scope_map[inner_block.id]
               /\ scope_map[inner_block.stmts[1].decl.local.id] = scope_map[inner_block.id]
               /\ \A use \in NodesFrom(inner_block, 2) :
                     /\ scope_map[use.id] # scope_map[outer.id]
                     /\ scope_map[use.id] # scope_map[inner_block.id]

C2_Witness ==
    /\ pc = "returned"
    /\ fn.args = <<>>
    /\ \E shape \in ShadowShapes :
          /\ shape[2].id = <<2, 2, 1, 1>>
          /\ Len(shape[2].stmts) = 1
          /\ shape[2].expr # None
          /\ scope_map[shape[2].expr[1].id] = scope_map[LetPat(shape[2].stmts[1]).id]

\* The binding patterns of the function (parameters and body) that bind name.
BindingsOf(name) ==
    { m \in BodyNodes \cup UNION { SubNodes(fn.args[i]) : i \in DOMAIN fn.args } :
        IsBindingPat(m) /\ NameOf(m) = name }

\* The declarations `let n = init;` of the body whose name is bound nowhere
\* else in the function.
LonelyLets ==
    { l \in { m \in BodyNodes : m.kind = "Local" } :
        /\ IsBindingPat(l.pat)
        /\ BindingsOf(NameOf(l.pat)) = {l.pat} }

\* C3: no shadowing.  A named stack entry whose name no entry below it
\* carries holds the handle of the entry below it; and a binding whose name
\* is bound nowhere else in the function causes no backend call, and is
\* recorded, with its initializer, under the handle that was current before
\* it (the handle its declaration was recorded under), and so is the node
\* that follows the declaration in its block.
C3_NoShadow ==
    /\ \A i \in DOMAIN scope_stack :
          (/\ scope_stack[i].name # None
           /\ \A j \in 1..(i - 1) : scope_stack[j].name # scope_stack[i].name)
          => /\ i > 1
             /\ scope_stack[i].scope_metadata = scope_stack[i - 1].scope_metadata
    /\ pc = "returned" =>
          /\ \A l \in LonelyLets :
                /\ NoShadowScopeFor(l.pat)
                /\ scope_map[l.pat.id] = scope_map[l.id]
                /\ \A e \in Range(OptSeq(l.init)) : scope_map[e.id] = scope_map[l.id]
          /\ \A b \in { m \in BodyNodes : m.kind = "Block" } :
                \A k \in DOMAIN b.stmts :
                    (IsLet(b.stmts[k]) /\ b.stmts[k].decl.local \in LonelyLets) =>
                        \A next \in Range(SubSeq(b.stmts \o OptSeq(b.expr), k + 1, k + 1)) :
                            scope_map[next.id] = scope_map[b.stmts[k].decl.local.id]

\* { let x = ..; { let y = ..; USE } } walked to the end.
C3_Witness ==
    /\ pc = "returned"
    /\ fn.args = <<>>
    /\ \E b \in { m \in BodyNodes : m.kind = "Block" /\ m.id = <<2, 2, 1, 1>> } :
          /\ b.stmts # <<>>
          /\ IsLet(b.stmts[1])
          /\ b.stmts[1].decl.local \in LonelyLets
          /\ scope_map[b.expr[1].id] = scope_map[b.id]
          /\ scope_map[LetPat(b.stmts[1]).id] = scope_map[b.id]
    /\ Cardinality(LonelyLets) = 2

\* The step is the part of with_new_scope after inner_walk.
Closing == pc = "walking" /\ todo # <<>> /\ Head(todo).op = "close_scope"

\* C4: scope closing.  When with_new_scope returns, the stack is as deep as
\* it was when with_new_scope was called.
C4_ScopeClosing ==
    [][ Closing => Len(scope_stack') = Len(Head(todo).at_call) ]_vars

\* A scope about to close with two named entries above its own, three
\* scopes deep.
C4_Witness ==
    /\ Closing
    /\ Len(scope_stack) >= Len(Head(todo).at_call) + 3
    /\ Cardinality({ i \in DOMAIN scope_stack : scope_stack[i].name = None }) >= 4

\* The block with_new_scope created for the arm (its span is that of the
\* arm's first pattern), if it was created.
ArmHandles(arm) ==
    { BlockHandle(k) : k \in { i \in DOMAIN blocks :
                                 /\ blocks[i].by = "with_new_scope"
                                 /\ blocks[i].span = Span(arm.pats[1]) } }

\* Handle h is handle a or a block below it.
RECURSIVE Within(_, _)
Within(h, a) ==
    \/ h = a
    \/ IsBlock(h) /\ Within(BlockOf(h).parent, a)

Matches == { m \in BodyNodes : m.kind = "ExprMatch" }

\* The names the arm's patterns bind.
ArmNames(arm) ==
    { NameOf(p) : p \in { q \in UNION { SubNodes(arm.pats[i]) : i \in DOMAIN arm.pats } :
                            IsBindingPat(q) } }

\* The next call is walk_pattern on the first pattern of the arm.
AtArm(arm) ==
    /\ pc = "walking"
    /\ todo # <<>>
    /\ Head(todo) = WalkPattern(arm.pats[1])

\* C5: match-arm isolation.  Each arm of a match whose first pattern has been
\* recorded has a block of its own, created by with_new_scope under the
\* handle the match was recorded under, different from the other arms'; when
\* the walk reaches the patterns of an arm, the stack holds no entry made
\* inside an earlier arm; and when the arms alone bind a name, once per arm,
\* no arm's binding of it gets a shadow scope: it is recorded under the arm's
\* block.
C5_ArmIsolation ==
    \A m \in Matches :
        /\ \A a \in DOMAIN m.arms :
              m.arms[a].pats[1].id \in DOMAIN scope_map =>
                  /\ Cardinality(ArmHandles(m.arms[a])) = 1
                  /\ \A h \in ArmHandles(m.arms[a]) :
                        BlockOf(h).parent = scope_map[m.id]
        /\ \A a, b \in DOMAIN m.arms :
              a # b => ArmHandles(m.arms[a]) \cap ArmHandles(m.arms[b]) = {}
        /\ \A a, b \in DOMAIN m.arms :
              (a < b /\ AtArm(m.arms[b])) =>
                  /\ \A i \in DOMAIN scope_stack :
                        \A h \in ArmHandles(m.arms[a]) :
                            ~Within(scope_stack[i].scope_metadata, h)
                  /\ Top(scope_stack).name = None
                  /\ Top(scope_stack).scope_metadata \in ArmHandles(m.arms[b])
        /\ pc = "returned" =>
              \A a \in DOMAIN m.arms :
                  LET p == m.arms[a].pats[1] IN
                  (/\ Len(m.arms[a].pats) = 1
                   /\ \A q \in BindingsOf(NameOf(p)) :
                         \E c \in DOMAIN m.arms : q = m.arms[c].pats[1])
                  => /\ NoShadowScopeFor(p)
                     /\ scope_map[p.id] \in ArmHandles(m.arms[a])

\* match .. { n => .., n => .. } walked to the end, n bound nowhere else.
C5_Witness ==
    /\ pc = "returned"
    /\ \E m \in Matches :
          /\ Len(m.arms) = 2
          /\ Len(m.arms[1].pats) = 1
          /\ Len(m.arms[2].pats) = 1
          /\ NameOf(m.arms[1].pats[1]) = NameOf(m.arms[2].pats[1])
          /\ Cardinality(BindingsOf(NameOf(m.arms[1].pats[1]))) = 2
          /\ scope_map[m.arms[1].pats[1].id] # scope_map[m.arms[2].pats[1].id]
          /\ NoShadowScopeFor(m.arms[2].pats[1])

----------------------------------------------------------------------------
(* Properties of create_mir_scopes                                         *)

\* The input says scope i directly owns no variable.
OwnsNoVariable(i) == \A var \in mir.var_decls : var.scope # i

\* The backend calls made for scope i (its span) by make_mir_scope.
CreatedFor(log, i) ==
    { k \in 1..Len(log) : /\ log[k].by = "make_mir_scope"
                          /\ log[k].span = mir.scopes[i].span }

\* Scope i has a parent, and that parent is a root (it has no parent itself).
ParentIsRoot(i) ==
    /\ ParentOf(i) # None
    /\ ParentOf(ParentOf(i)[1]) = None

ParentIsNotRoot(i) ==
    /\ ParentOf(i) # None
    /\ ParentOf(ParentOf(i)[1]) # None

Elided(i) ==
    /\ scopes[i] # Null
    /\ scopes[i] = scopes[ParentOf(i)[1]]
    /\ CreatedFor(blocks, i) = {}

Materialized(i) ==
    /\ Cardinality(CreatedFor(blocks, i)) = 1
    /\ \E k \in CreatedFor(blocks, i) :
          /\ scopes[i] = BlockHandle(k)
          /\ blocks[k].parent = FnMetadata
    /\ scopes[i] # scopes[ParentOf(i)[1]]

\* C6: empty-scope elision.  A scope without variables whose parent is not a
\* root never causes a backend call and, once resolved, holds exactly the
\* handle stored for its parent; a scope without variables whose parent is a
\* root holds, once resolved, a handle created for it alone under the
\* function handle.
C6_EmptyScopeElision ==
    \A i \in DOMAIN scopes :
        OwnsNoVariable(i) =>
            /\ ParentIsNotRoot(i) => CreatedFor(blocks, i) = {}
            /\ (ParentIsNotRoot(i) /\ scopes[i] # Null) => Elided(i)
            /\ (ParentIsRoot(i) /\ scopes[i] # Null) => Materialized(i)

C6_Witness ==
    /\ mpc = "returned"
    /\ \E i, j \in DOMAIN returned :
          /\ OwnsNoVariable(i) /\ ParentIsNotRoot(i) /\ Elided(i)
          /\ OwnsNoVariable(ParentOf(i)[1])
          /\ OwnsNoVariable(j) /\ ParentIsRoot(j) /\ Materialized(j)

Disabled == debug_context \in {"DebugInfoDisabled", "FunctionWithoutDebugInfo"}

\* C7: with debug info disabled no lexical block is ever created, and the
\* returned table has one slot per MIR scope, every slot null.
C7_DisabledAllNull ==
    Disabled =>
        /\ blocks = <<>>
        /\ mpc = "returned" =>
              /\ DOMAIN returned = DOMAIN mir.scopes
              /\ Cardinality(DOMAIN returned) = ScopesLen(mir)
              /\ \A i \in DOMAIN returned : returned[i] = Null

C7_Witness ==
    /\ Disabled
    /\ mpc = "returned"
    /\ ScopesLen(mir) >= 2
    /\ mir.var_decls # {}

\* C8: as documented on create_mir_scopes, with debug info disabled the
\* returned vector is empty.
C8_DisabledEmpty ==
    (Disabled /\ mpc = "returned") => Cardinality(DOMAIN returned) = 0

\* What a handle stands for, independent of the pointer value: null, the
\* function, or a lexical block of a span under what its parent stands for.
RECURSIVE Descr(_, _)
Descr(log, h) ==
    IF h = Null THEN [kind |-> "null"]
    ELSE IF h = FnMetadata THEN [kind |-> "fn"]
    ELSE [kind |-> "block", span |-> log[h - FnMetadata].span,
          parent |-> Descr(log, log[h - FnMetadata].parent)]

\* C9: a second call of create_mir_scopes on the same inputs returns a table
\* of the same shape: slot by slot the same kind of handle (null, function,
\* block of the same span under the same parent), the same slots sharing a
\* handle, and as many backend calls as the first call made.
C9_Idempotent ==
    (mpc = "returned" /\ prior # <<>>) =>
        LET first == prior[1].table IN
        /\ DOMAIN first = DOMAIN returned
        /\ \A i \in DOMAIN returned :
              Descr(blocks, first[i]) = Descr(blocks, returned[i])
        /\ \A i, j \in DOMAIN returned :
              (first[i] = first[j]) <=> (returned[i] = returned[j])
        /\ Len(blocks) = 2 * prior[1].calls

C9_Witness ==
    /\ mpc = "returned"
    /\ prior # <<>>
    /\ prior[1].calls >= 2
    /\ \E i, j \in DOMAIN returned :
          /\ i # j
          /\ returned[i] = returned[j]
          /\ IsBlock(returned[i])
          /\ returned[i] # prior[1].table[i]

\* No resolved slot changes in this step.
SlotsStable ==
    \A i \in (DOMAIN scopes) \cap (DOMAIN scopes') :
        scopes[i] # Null => scopes'[i] = scopes[i]

OwnFresh(tab, log, i) ==
    \E k \in CreatedFor(log, i) : tab[i] = BlockHandle(k)

AncestorStored(tab, i) ==
    \E a \in Ancestors(i) : tab[i] = tab[a]

RootFn(tab, i) ==
    /\ ParentOf(i) = None
    /\ tab[i] = FnMetadata

\* C10 as stated: a resolved slot never changes, and every resolved slot holds
\* the handle created for its own scope or the handle stored for an ancestor.
C10_Original ==
    [][ /\ SlotsStable
        /\ \A i \in DOMAIN scopes' :
              scopes'[i] # Null =>
                  \/ OwnFresh(scopes', blocks', i)
                  \/ AncestorStored(scopes', i) ]_vars

\* C10 (amended): a resolved slot never changes, and every resolved slot holds
\* the handle created for its own scope, the handle stored for an ancestor,
\* or, for a scope without parent, the function handle.
C10_SlotInvariant ==
    [][ /\ SlotsStable
        /\ \A i \in DOMAIN scopes' :
              scopes'[i] # Null =>
                  \/ OwnFresh(scopes', blocks', i)
                  \/ AncestorStored(scopes', i)
                  \/ RootFn(scopes', i) ]_vars

C10_Witness ==
    /\ mpc = "loop"
    /\ callstack # <<>>
    /\ \E i, j, r \in DOMAIN scopes :
          /\ RootFn(scopes, r)
          /\ OwnFresh(scopes, blocks, i)
          /\ ParentOf(j) = Some(i)
          /\ scopes[j] = scopes[i]
          /\ \E u \in DOMAIN scopes : scopes[u] = Null

----------------------------------------------------------------------------
(* Further properties of create_scope_map                                  *)

\* C11: the consistency fault of with_new_scope is unreachable.  Whenever a
\* scope is about to close, the stack left after popping the trailing named
\* entries is not empty and its top entry holds the handle created when the
\* scope was opened; the walk never stops in span_bug! (or in a panic).
C11_NoSpanBug ==
    /\ pc \notin {"span_bug", "panic"}
    /\ Closing =>
          LET popped == PopArtificial(scope_stack)
          IN /\ popped # <<>>
             /\ Top(popped).name = None
             /\ Top(popped).scope_metadata = Head(todo).scope_metadata
             /\ IsBlock(Head(todo).scope_metadata)
             /\ BlockOf(Head(todo).scope_metadata).span = Head(todo).scope_span

\* A scope about to close below a shadow scope: the top entry is named and
\* holds another handle than the one the closing scope created.
C11_Witness ==
    /\ Closing
    /\ Top(scope_stack).name # None
    /\ Top(scope_stack).scope_metadata # Head(todo).scope_metadata
    /\ Len(scope_stack) >= Len(Head(todo).at_call) + 3

\* C12: termination.  A call of create_scope_map eventually returns, and a
\* call of create_mir_scopes on a scope tree with acyclic parent links
\* eventually returns: every run of either procedure ends up returned.
\* The one run of create_mir_scopes that ends otherwise is the call on a
\* function that has no MIR, hence no scope tree, which stops in the panic
\* of the expect.
C12_Terminates ==
    <>[]( \/ pc = "returned" /\ mpc = "idle"
          \/ mpc = "returned" /\ pc = "idle" /\ fcx_mir # None
          \/ mpc = "panic" /\ pc = "idle" /\ fcx_mir = None )

\* create_mir_scopes has returned after a recursion three calls deep: a
\* scope, its parent and its grandparent are stored at rising indices.
C12_Witness ==
    /\ mpc = "returned"
    /\ ~DebugInfoOff(debug_context)
    /\ \E i, j, k \in DOMAIN scopes :
          /\ i < j /\ j < k
          /\ ParentOf(i) = Some(j)
          /\ ParentOf(j) = Some(k)
          /\ returned[i] # Null

\* The bindings of the parameters, in the order create_scope_map meets them.
ParamBindings == Flatten([i \in DOMAIN fn.args |-> PatBindings(fn.args[i].pat)])

\* Above the function's own entry the stack holds one entry per parameter
\* binding, named after it and holding the function handle; no other named
\* entry holds the function handle; every parameter binding is recorded
\* under the function handle and no lexical block was created at it; and
\* nothing is created before these entries are on the stack.
ParamsSeeded ==
    pc \in {"walking", "returned"} =>
        /\ Len(scope_stack) >= Len(ParamBindings) + 1
        /\ scope_stack[1] = ScopeStackEntry(FnMetadata, None)
        /\ \A k \in DOMAIN ParamBindings :
              /\ scope_stack[k + 1] =
                     ScopeStackEntry(FnMetadata, Some(NameOf(ParamBindings[k])))
              /\ ParamBindings[k].id \in DOMAIN scope_map
              /\ scope_map[ParamBindings[k].id] = FnMetadata
              /\ \A b \in DOMAIN blocks : blocks[b].span # Span(ParamBindings[k])
        /\ \A i \in DOMAIN scope_stack :
              (scope_stack[i].scope_metadata = FnMetadata /\ scope_stack[i].name # None)
                  => i \in 2..(Len(ParamBindings) + 1)
        /\ blocks = <<>> =>
              /\ Len(scope_stack) = Len(ParamBindings) + 1
              /\ Len(todo) = 1
              /\ Head(todo).op = "with_new_scope"

\* walk_pattern is about to walk a binding whose name a parameter binds.
AtParamNamesake ==
    /\ Next1("walk_pattern")
    /\ IsBindingPat(Head(todo).node)
    /\ \E k \in DOMAIN ParamBindings :
          NameOf(ParamBindings[k]) = NameOf(Head(todo).node)

\* C14: parameter pre-seeding.  From the moment the body scope is about to
\* be opened the parameters' entries are on the stack as described; a
\* binding of the body named like a parameter, when walk_pattern reaches it,
\* is found by the shadow check; the entry it pushes holds a lexical block
\* created by walk_pattern; and at the return every such binding is
\* recorded under the block created at it.
C14_ParamSeeding ==
    /\ ParamsSeeded
    /\ AtParamNamesake => NeedNewScope(scope_stack, NameOf(Head(todo).node))
    /\ pc = "walking" =>
          \A i \in (Len(ParamBindings) + 2)..Len(scope_stack) :
              (\E k \in DOMAIN ParamBindings :
                   scope_stack[i].name = Some(NameOf(ParamBindings[k])))
              => /\ IsBlock(scope_stack[i].scope_metadata)
                 /\ BlockOf(scope_stack[i].scope_metadata).by = "walk_pattern"
    /\ pc = "returned" =>
          \A n \in BodyNodes :
              (/\ IsBindingPat(n)
               /\ \E k \in DOMAIN ParamBindings :
                     NameOf(ParamBindings[k]) = NameOf(n))
              => IsShadowScopeOf(scope_map[n.id], n)

\* A function whose parameter pattern binds two names has returned, and a
\* binding of its body named like a parameter has a shadow scope just below
\* the body's scope.
C14_Witness ==
    /\ pc = "returned"
    /\ Len(ParamBindings) = 2
    /\ \E k \in DOMAIN blocks :
          /\ blocks[k].by = "walk_pattern"
          /\ blocks[k].parent = BlockHandle(1)
          /\ \E n \in BodyNodes :
                /\ IsBindingPat(n)
                /\ Span(n) = blocks[k].span
                /\ \E j \in DOMAIN ParamBindings : NameOf(ParamBindings[j]) = NameOf(n)
                /\ scope_map[n.id] = BlockHandle(k)

\* C16: the bottom of the scope stack.  From the first push on, the stack is
\* not empty and its bottom entry is the unnamed entry holding the function
\* handle; when a scope closes, neither the loop that pops the named entries
\* nor the pop of the scope's own entry reaches the bottom entry.
C16_BottomEntry ==
    /\ pc # "panic"
    /\ pc \in {"walking", "returned"} =>
          /\ scope_stack # <<>>
          /\ scope_stack[1] = ScopeStackEntry(FnMetadata, None)
    /\ Closing =>
          /\ Len(PopArtificial(scope_stack)) >= 2
          /\ Pop(PopArtificial(scope_stack))[1] = ScopeStackEntry(FnMetadata, None)

\* The body's scope is about to close in a function without parameters:
\* named entries lie above its entry, and only the bottom entry below it.
C16_Witness ==
    /\ Closing
    /\ Len(Head(todo).at_call) = 1
    /\ Len(scope_stack) >= 4
    /\ Top(scope_stack).name # None

\* The function has no parameter and its body is { { .. let x .. } let x }:
\* a block that binds a name, closed before a declaration of the same name.
RebindsAfterClose ==
    /\ fn.args = <<>>
    /\ Len(fn.fn_entry_block.stmts) = 2
    /\ IsBlockStmt(fn.fn_entry_block.stmts[1])
    /\ IsLet(fn.fn_entry_block.stmts[2])
    /\ \E s \in Range(fn.fn_entry_block.stmts[1].exp.block.stmts) :
          /\ IsLet(s)
          /\ NameOf(LetPat(s)) = NameOf(LetPat(fn.fn_entry_block.stmts[2]))

\* The declaration after the closed block made no shadow scope: it is
\* recorded under the body's handle and no block was created at it.
NoScopeAfterClose ==
    (pc = "returned" /\ RebindsAfterClose) =>
        /\ NoShadowScopeFor(LetPat(fn.fn_entry_block.stmts[2]))
        /\ scope_map[LetPat(fn.fn_entry_block.stmts[2]).id]
              = scope_map[fn.fn_entry_block.id]

\* C18: closing a scope restores the stack exactly.  The step that ends
\* with_new_scope leaves the stack equal, entry by entry, to the stack the
\* call found; and in { { let x = 1; } let x = 2; } the second x, walked
\* after the inner scope closed, gets no shadow scope.
C18_StackRestored ==
    [][ /\ Closing => scope_stack' = Head(todo).at_call
        /\ NoScopeAfterClose' ]_vars

\* { { let x } let x } has been walked: the only blocks are the body's and
\* the inner block's.
C18_Witness ==
    /\ pc = "returned"
    /\ RebindsAfterClose
    /\ Len(blocks) = 2
    /\ Len(fn.fn_entry_block.stmts[1].exp.block.stmts) = 1

\* The local declarations of the body that have an initializer.
LocalsWithInit ==
    { m.decl.local : m \in { s \in BodyNodes : /\ s.kind = "StmtDecl"
                                                /\ s.decl.kind = "DeclLocal"
                                                /\ s.decl.local.init # None } }

\* The handle on top of the stack after the pattern of local has been
\* walked: the handle the last binding of the pattern was recorded under,
\* or, without a binding, the handle the declaration was recorded under.
TopAfterPattern(local) ==
    IF PatBindings(local.pat) = <<>> THEN scope_map[local.id]
    ELSE scope_map[PatBindings(local.pat)[Len(PatBindings(local.pat))].id]

\* The position of the insert of node id in the record of the inserts.
InsertedAt(id) == CHOOSE i \in DOMAIN inserts : inserts[i].id = id

\* The lexical blocks walk_pattern created at the pattern of local.
ShadowBlocksAt(local) ==
    { k \in DOMAIN blocks : /\ blocks[k].by = "walk_pattern"
                            /\ blocks[k].span = Span(local.pat) }

\* Every node of the pattern is inserted before every node of the
\* initializer; the initializer expression is recorded under the handle on
\* top after the pattern; a shadow scope created at the pattern is the
\* handle of the initializer and not the handle of the declaration.
PatternThenInit(local) ==
    /\ \A p \in { n \in SubNodes(local.pat) : HasId(n) } :
          \A e \in { n \in SubNodes(local.init[1]) : HasId(n) } :
              InsertedAt(p.id) < InsertedAt(e.id)
    /\ scope_map[local.init[1].id] = TopAfterPattern(local)
    /\ \A k \in ShadowBlocksAt(local) :
          /\ IsBindingPat(local.pat)
          /\ blocks[k].parent = scope_map[local.id]
          /\ scope_map[local.init[1].id] = BlockHandle(k)
          /\ scope_map[local.init[1].id] # scope_map[local.id]

\* C20 as stated: every node of the initializer is recorded under the handle
\* on top of the stack after the pattern has been walked.
C20_Original ==
    pc = "returned" =>
        \A local \in LocalsWithInit :
            /\ PatternThenInit(local)
            /\ \A e \in { n \in SubNodes(local.init[1]) : HasId(n) } :
                  scope_map[e.id] = TopAfterPattern(local)

\* C20 (amended): the pattern is walked before the initializer; the
\* initializer expression is recorded under the handle on top of the stack
\* after the pattern, which is the new shadow scope when the pattern made
\* one; every node below the initializer expression is recorded under that
\* handle or under a lexical block nested in it.
C20_PatternBeforeInit ==
    pc = "returned" =>
        \A local \in LocalsWithInit :
            /\ PatternThenInit(local)
            /\ \A e \in { n \in SubNodes(local.init[1]) : HasId(n) } :
                  Within(scope_map[e.id], TopAfterPattern(local))

\* Returned with a declaration whose pattern made a shadow scope and whose
\* initializer is a block: the block expression is recorded under the
\* shadow scope, the block's contents under a scope nested in it.
C20_Witness ==
    /\ pc = "returned"
    /\ \E local \in LocalsWithInit :
          /\ ShadowBlocksAt(local) # {}
          /\ local.init[1].kind = "ExprBlock"
          /\ scope_map[local.init[1].block.id] # scope_map[local.init[1].id]
          /\ IsBlock(scope_map[local.init[1].block.id])
          /\ BlockOf(scope_map[local.init[1].block.id]).parent
                = scope_map[local.init[1].id]

\* walk_pattern is about to walk a binding pattern.
AtBinding ==
    /\ Next1("walk_pattern")
    /\ IsBindingPat(Head(todo).node)

\* Some entry of the stack, at any depth, carries the name of the binding
\* walk_pattern is about to walk.
NameOnStack ==
    \E i \in DOMAIN scope_stack :
        /\ scope_stack[i].name # None
        /\ scope_stack[i].name[1] = NameOf(Head(todo).node)

\* The step creates one lexical block at the pattern about to be walked,
\* child of the handle on top of the stack, pushes it with the pattern's
\* name and records the pattern under it.
CreatesShadowScope ==
    /\ blocks' = Append(blocks, [parent |-> Top(scope_stack).scope_metadata,
                                 span |-> Span(Head(todo).node),
                                 by |-> "walk_pattern"])
    /\ scope_stack' = Append(scope_stack,
           [scope_metadata |-> BlockHandle(Len(blocks) + 1),
            name |-> Some(NameOf(Head(todo).node))])
    /\ scope_map'[Head(todo).node.id] = BlockHandle(Len(blocks) + 1)

\* The arms `n | n ..` of the body's matches: two alternative patterns that
\* bind the same name, which is bound nowhere else in the function.
TwoAlternativeArms ==
    { arm \in UNION { Range(m.arms) : m \in Matches } :
        /\ Len(arm.pats) = 2
        /\ IsBindingPat(arm.pats[1])
        /\ IsBindingPat(arm.pats[2])
        /\ NameOf(arm.pats[1]) = NameOf(arm.pats[2])
        /\ BindingsOf(NameOf(arm.pats[1])) = {arm.pats[1], arm.pats[2]} }

\* The first alternative is recorded under the arm's block and no block was
\* created at it; the second is recorded under the one block created at
\* it, a child of the arm's block; the guard and the body of the arm are
\* recorded under that block.
AlternativesRecorded ==
    \A arm \in TwoAlternativeArms :
        /\ Cardinality(ArmHandles(arm)) = 1
        /\ scope_map[arm.pats[1].id] \in ArmHandles(arm)
        /\ NoShadowScopeFor(arm.pats[1])
        /\ IsShadowScopeOf(scope_map[arm.pats[2].id], arm.pats[2])
        /\ BlockOf(scope_map[arm.pats[2].id]).parent = scope_map[arm.pats[1].id]
        /\ Cardinality({ k \in DOMAIN blocks : /\ blocks[k].by = "walk_pattern"
                                                /\ blocks[k].span = Span(arm.pats[2]) }) = 1
        /\ \A g \in Range(OptSeq(arm.guard)) :
              scope_map[g.id] = scope_map[arm.pats[2].id]
        /\ scope_map[arm.body.id] = scope_map[arm.pats[2].id]

\* C21: a binding gets a fresh scope exactly when its name is on the stack.
\* A step of walk_pattern on a binding creates a lexical block if and only
\* if some entry of the stack, entries pushed in the same scope included,
\* carries the binding's name, and no other step of walk_pattern creates
\* one; and when the walk returns, in every arm `n | n ..` whose name is
\* bound nowhere else the first n is recorded under the arm's block and the
\* second n, the guard and the body under a block created at the second n,
\* child of the arm's block.
C21_ShadowIffNameOnStack ==
    [][ /\ AtBinding => (NameOnStack <=> CreatesShadowScope)
        /\ (AtBinding /\ ~NameOnStack) => blocks' = blocks
        /\ (Next1("walk_pattern") /\ ~AtBinding) => blocks' = blocks
        /\ (pc = "walking" /\ pc' = "returned") => AlternativesRecorded' ]_vars

\* Returned from a function whose match has an arm `n | n if g => e`, n
\* bound nowhere else: the guard is recorded under a block made by
\* walk_pattern whose parent is the arm's block.
C21_Witness ==
    /\ pc = "returned"
    /\ \E arm \in TwoAlternativeArms :
          /\ arm.guard # None
          /\ IsShadowScopeOf(scope_map[arm.guard[1].id], arm.pats[2])
          /\ BlockOf(scope_map[arm.guard[1].id]).parent \in ArmHandles(arm)
          /\ scope_map[arm.pats[1].id] \in ArmHandles(arm)

----------------------------------------------------------------------------
(* Further properties of create_mir_scopes                                 *)

\* The nearest proper ancestor of scope i that owns a variable, if any.
RECURSIVE NearestOwner(_)
NearestOwner(i) ==
    IF ParentOf(i) = None THEN None
    ELSE IF ~OwnsNoVariable(ParentOf(i)[1]) THEN ParentOf(i)
    ELSE NearestOwner(ParentOf(i)[1])

\* The nearest proper ancestor of scope i that owns a variable or is the
\* child of a root, if any.
RECURSIVE NearestKept(_)
NearestKept(i) ==
    IF ParentOf(i) = None THEN None
    ELSE IF ~OwnsNoVariable(ParentOf(i)[1]) \/ ParentIsRoot(ParentOf(i)[1])
         THEN ParentOf(i)
    ELSE NearestKept(ParentOf(i)[1])

\* Scope i is resolved and falls under the elision: it owns no variable and
\* its parent is not a root.
ResolvedElided(i) ==
    /\ scopes[i] # Null
    /\ OwnsNoVariable(i)
    /\ ParentIsNotRoot(i)

\* C13 as stated: an elided scope holds the handle of its nearest ancestor
\* that owns a variable, and the function handle when no ancestor owns one.
C13_Original ==
    \A i \in DOMAIN scopes :
        ResolvedElided(i) =>
            scopes[i] = IF NearestOwner(i) = None THEN FnMetadata
                        ELSE scopes[NearestOwner(i)[1]]

\* C13 (amended): an elided scope holds the handle created for its nearest
\* ancestor that owns a variable or is the child of a root; such an ancestor
\* exists, and the handle is never the function handle.
C13_CollapseToKept ==
    \A i \in DOMAIN scopes :
        ResolvedElided(i) =>
            /\ NearestKept(i) # None
            /\ scopes[i] = scopes[NearestKept(i)[1]]
            /\ OwnFresh(scopes, blocks, NearestKept(i)[1])
            /\ scopes[i] # FnMetadata
            /\ CreatedFor(blocks, i) = {}

\* Returned with a scope elided two levels up into a variable-free child of
\* the root, while no scope owns a variable.
C13_Witness ==
    /\ mpc = "returned"
    /\ mir.var_decls = {}
    /\ \E i \in DOMAIN scopes :
          /\ ResolvedElided(i)
          /\ NearestKept(i) # None
          /\ NearestKept(i) # ParentOf(i)
          /\ ParentIsRoot(NearestKept(i)[1])
          /\ returned[i] = returned[NearestKept(i)[1]]

\* C15: one handle per input scope.  With debug info enabled the table
\* create_mir_scopes returns has a slot for every MIR scope and every slot
\* is resolved, whatever the order of the indices; the recursion never
\* exhausts the stack.
C15_AllResolved ==
    /\ mpc # "stack_overflow"
    /\ (mpc = "returned" /\ ~Disabled) =>
          /\ DOMAIN returned = DOMAIN mir.scopes
          /\ \A i \in DOMAIN returned : returned[i] # Null

\* Returned, debug info enabled, with a scope stored at a lower index than
\* its parent, which is stored at a lower index than its own parent.
C15_Witness ==
    /\ mpc = "returned"
    /\ ~Disabled
    /\ \E i, j, k \in DOMAIN returned :
          /\ i < j /\ j < k
          /\ ParentOf(i) = Some(j)
          /\ ParentOf(j) = Some(k)
          /\ returned[i] # Null /\ returned[j] # Null /\ returned[k] # Null
          /\ returned[i] # returned[k]

\* C17: parents before children, each index once.  A step that writes the
\* slot of a scope writes a slot that was null, and if the scope has a
\* parent the parent's slot is non-null before the step; and at no time has
\* the backend been asked for more than one lexical block for one scope
\* (for any block at all, when the function has no MIR).
C17_ParentsFirst ==
    [][ /\ \A i \in (DOMAIN scopes) \cap (DOMAIN scopes') :
              scopes'[i] # scopes[i] =>
                  /\ scopes[i] = Null
                  /\ scopes'[i] # Null
                  /\ ParentOf(i) # None => scopes[ParentOf(i)[1]] # Null
        /\ IF fcx_mir = None
           THEN blocks' = <<>>
           ELSE /\ \A i \in DOMAIN mir.scopes :
                      Cardinality(CreatedFor(blocks', i)) <= 1
                /\ Len(blocks') <= ScopesLen(mir) ]_vars

\* A call made for a parent has returned into its caller, two calls deep:
\* the caller's slot is still null, its parent's slot holds a block.
C17_Witness ==
    /\ Len(callstack) >= 2
    /\ Frame.pc = "parent_done"
    /\ scopes[Frame.scope] = Null
    /\ IsBlock(ParentScope(Frame.scope))
    /\ ParentOf(Frame.scope)[1] > Frame.scope

\* C19: only a scope without parent holds the function handle.  In every
\* state a slot holds the function handle only if its scope has no parent;
\* and when make_mir_scope, back from the call for the parent, tests the
\* parent's handle against the function handle, the parent's slot is
\* resolved and the test is true exactly when the parent has no parent.
C19_FnHandleOnlyRoot ==
    /\ \A i \in DOMAIN scopes : scopes[i] = FnMetadata => ParentOf(i) = None
    /\ (callstack # <<>> /\ Frame.pc = "parent_done") =>
          /\ ParentScope(Frame.scope) # Null
          /\ (ParentScope(Frame.scope) = FnMetadata) <=> ParentIsRoot(Frame.scope)

\* make_mir_scope is about to test the handle of a parent that is not a
\* root and owns no variable, for a scope that owns none either, while a
\* root already holds the function handle.
C19_Witness ==
    /\ callstack # <<>>
    /\ Frame.pc = "parent_done"
    /\ ParentIsNotRoot(Frame.scope)
    /\ OwnsNoVariable(Frame.scope)
    /\ OwnsNoVariable(ParentOf(Frame.scope)[1])
    /\ IsBlock(ParentScope(Frame.scope))
    /\ \E r \in DOMAIN scopes : scopes[r] = FnMetadata

====
